---- MODULE Spec2Model ----
(***************************************************************************)
(* VoltEdge: in-memory charging network (models/ and services/service.py). *)
(*                                                                         *)
(* Objects that the Python code shares by reference (Charger, Session)     *)
(* live in heaps indexed by a reference number; dictionaries of the        *)
(* ChargingService are functions whose DOMAIN is the dictionary's key set. *)
(* Money is kept in thousandths of a euro (the float products of the code  *)
(* are taken as exact decimals), time in whole seconds.                    *)
(***************************************************************************)
EXTENDS Integers, Sequences, FiniteSets, TLC

\* ---------------------------------------------------------------- bounds
MaxUsers == 2
MaxChargerObjs == 2
MaxSessions == 2
MaxTicks == 2
MaxSaldo == 1000

\* ---------------------------------------------------------------- inputs
StationIds == {1, 2}
ChargerIds == {101, 102}
Emails == {"ana@x", "luis@x"}
UserTypes == {"individual", "empresa", "admin"}
InitialBalances == {-1000, 0, 250000}
RechargeAmounts == {-1000, 0, 1000}
TickSteps == {600, 86400}
\* seconds of a clock step around a session's first full day
ClockSteps == {600, 85800, 86400}
StatusInputs == {"available", "disponible", "ocupado", "mantenimiento"}
MaintIds == {5001, 5002}
NotesInputs == {"", "ok", "revisado"}

\* the requests sent to the API: one station, charger and maintenance id
ApiStationIds == {1}
ApiChargerIds == {101}
ApiMaintIds == {5001}
ApiNotes == {"ok"}
ApiAmounts == {0, 1000}
ApiTipos == {"preventivo", "correctivo", "otro"}
\* minutes a token issued by create_access_token stays valid
ACCESS_TOKEN_EXPIRE_MINUTES == 60
\* bearer tokens: the email they name, their expiry in seconds on the clock
\* and whether they carry a signature made with SECRET_KEY
Tokens ==
    [sub : Emails \cup {"nadie@x"}, exp : {ACCESS_TOKEN_EXPIRE_MINUTES * 60}, signed : {TRUE}]
    \cup [sub : Emails, exp : {-1}, signed : {TRUE}]
    \cup [sub : Emails, exp : {ACCESS_TOKEN_EXPIRE_MINUTES * 60}, signed : {FALSE}]

\* the bytes hash_password and verify_password keep of a password
PasswordBytesLimit == 72
\* a password of n one-byte characters ch
Repeat(ch, n) == [i \in 1..n |-> ch]
DemoPassword == Repeat("a", 8)
\* short passwords, and two long ones that differ in their last byte only
Passwords ==
    {DemoPassword, Repeat("b", 8),
     Repeat("a", PasswordBytesLimit) \o <<"x">>,
     Repeat("a", PasswordBytesLimit) \o <<"y">>}

\* None of Python: a reference that points to no object, an unset time
None == 0
NoTime == -1

VARIABLES
    chargerHeap,   \* Charger objects: Seq of [id, status]
    stations,      \* ChargingService.stations: id -> [chargers: Seq(ref)]
    chargers,      \* ChargingService.chargers: id -> Charger ref
    users,         \* ChargingService.users: Seq of User, uuid = index
    sessionHeap,   \* Session objects: Seq of [user, charger, start_time, end_time]
    sessions,      \* ChargingService.sessions: user id -> Session ref
    maintenances,  \* ChargingService.maintenances: id -> Maintenance
    now,           \* datetime.datetime.now(), seconds
    ticks,         \* number of clock advances so far
    last,          \* the last call: its name, its return value, ...
    inflight       \* start_charging calls under way: user id -> their locals

vars == <<chargerHeap, stations, chargers, users, sessionHeap, sessions,
          maintenances, now, ticks, last, inflight>>

EmptyMap == [x \in {} |-> None]

\* dict[k] = v
Put(d, k, v) == [x \in (DOMAIN d) \cup {k} |-> IF x = k THEN v ELSE d[x]]

\* del dict[k]
Del(d, k) == [x \in (DOMAIN d) \ {k} |-> d[x]]

\* the record of a ChargingService call: what it returned (the calls made
\* directly on a Charger or a Station record their own name instead)
Call(ret) == [op |-> "service", ret |-> ret]

\* ================================================================ Charger

\* Charger.__init__: the default status is the string "available"
DefaultStatus == "available"

NewCharger(id, status) == [id |-> id, status |-> status]

\* start_charge occupying a charger under either word for available
start_charge_either_word(status) ==
    IF status = "disponible" \/ status = "available" THEN "ocupado" ELSE status

\* Charger.start_charge: the status after the call
start_charge(status) ==
    IF status = "disponible" THEN "ocupado" ELSE status

\* stop_charge testing for a status word that no charger ever holds
stop_charge_wrong_word(status) ==
    IF status = "occupied" THEN "disponible" ELSE status

\* Charger.stop_charge: the status after the call
stop_charge(status) ==
    IF status = "ocupado" THEN "disponible" ELSE status

\* ================================================================ Station

RECURSIVE FilterAvailable(_, _)
FilterAvailable(heap, refs) ==
    IF refs = << >> THEN << >>
    ELSE IF heap[Head(refs)].status = "available"
         THEN <<Head(refs)>> \o FilterAvailable(heap, Tail(refs))
         ELSE FilterAvailable(heap, Tail(refs))

\* get_available_chargers listing the newest charger first
get_available_chargers_newest_first(heap, station) ==
    LET f == FilterAvailable(heap, station.chargers) IN
    [i \in 1..Len(f) |-> f[Len(f) + 1 - i]]

\* Station.get_available_chargers: the refs of the chargers it returns
get_available_chargers(heap, station) == FilterAvailable(heap, station.chargers)

\* Station.reserve_charger: the Charger objects after the call and the ref
\* of the charger it returns (None when it returns nothing)
reserve_charger(heap, station) ==
    LET disponible == get_available_chargers(heap, station) IN
    IF disponible # << >>
    THEN [ch  |-> [heap EXCEPT ![disponible[1]].status = "ocupado"],
          ret |-> disponible[1]]
    ELSE [ch |-> heap, ret |-> None]

\* ================================================================ Session

SecondsPerDay == 86400

\* timedelta.seconds of (t1 - t0), t1 >= t0: the days are a separate field
TimedeltaSeconds(t0, t1) == (t1 - t0) % SecondsPerDay

\* Session.get_duration at clock value t
get_duration(s, t) ==
    IF s.end_time # NoTime
    THEN TimedeltaSeconds(s.start_time, s.end_time) \div 60
    ELSE TimedeltaSeconds(s.start_time, t) \div 60

\* ================================================================ User

\* User.get_tarifa, thousandths of a euro per kWh
get_tarifa(user) == IF user.user_type = "empresa" THEN 250 ELSE 300

\* User.tiene_saldo_suficiente
tiene_saldo_suficiente(saldo, cantidad) == saldo >= cantidad

\* descontar_saldo without its sufficiency test
descontar_saldo_unchecked(saldo, cantidad) ==
    [ok |-> TRUE, saldo |-> saldo - cantidad]

\* User.descontar_saldo: [ok, saldo] after the call
descontar_saldo(saldo, cantidad) ==
    IF ~tiene_saldo_suficiente(saldo, cantidad)
    THEN [ok |-> FALSE, saldo |-> saldo]
    ELSE [ok |-> TRUE, saldo |-> saldo - cantidad]

\* recargar_saldo refusing negative amounts only
recargar_saldo_accepts_zero(saldo, cantidad) ==
    IF cantidad < 0
    THEN [ok |-> FALSE, saldo |-> saldo]
    ELSE [ok |-> TRUE, saldo |-> saldo + cantidad]

\* User.recargar_saldo: [ok, saldo] after the call
recargar_saldo(saldo, cantidad) ==
    IF cantidad <= 0
    THEN [ok |-> FALSE, saldo |-> saldo]
    ELSE [ok |-> TRUE, saldo |-> saldo + cantidad]

\* the cost end_session computes: minutes * 0.5 kWh/min * tarifa
Coste(user, duracion_minutos) == (duracion_minutos * 5 * get_tarifa(user)) \div 10

\* the condition of User.start_session
StartSessionAccepts(status) == status = "disponible" \/ status = "available"

\* Session.__init__ at clock value t
NewSession(u, c, t) ==
    [user |-> u, charger |-> c, start_time |-> t, end_time |-> NoTime]

\* Session.end at clock value t
end(s, t) == [s EXCEPT !.end_time = t]

\* User.__init__
NewUser(email, password_hash, user_type, saldo) ==
    [email |-> email, password_hash |-> password_hash,
     user_type |-> user_type, saldo |-> saldo,
     active_session |-> None, sessions_history |-> << >>]

\* User.start_session(charger): the heaps, the users and the return value
start_session(u, c) ==
    IF StartSessionAccepts(chargerHeap[c].status)
    THEN [ch  |-> [chargerHeap EXCEPT ![c].status = start_charge(@)],
          sh  |-> Append(sessionHeap, NewSession(u, c, now)),
          us  |-> [users EXCEPT ![u].active_session = Len(sessionHeap) + 1],
          ret |-> Len(sessionHeap) + 1]
    ELSE [ch |-> chargerHeap, sh |-> sessionHeap, us |-> users, ret |-> None]

\* end_session giving up, with the session left open, when the debit fails
end_session_blocked(u) ==
    LET s == users[u].active_session IN
    IF s # None
    THEN LET ended  == end(sessionHeap[s], now)
             duracion_minutos == get_duration(ended, now)
             coste  == Coste(users[u], duracion_minutos)
             cobro  == descontar_saldo(users[u].saldo, coste)
         IN IF cobro.ok
            THEN [ch |-> [chargerHeap EXCEPT ![ended.charger].status = stop_charge(@)],
                  sh |-> [sessionHeap EXCEPT ![s] = ended],
                  us |-> [users EXCEPT ![u] =
                             [@ EXCEPT !.saldo = cobro.saldo,
                                       !.sessions_history = Append(@, s),
                                       !.active_session = None]]]
            ELSE [ch |-> chargerHeap, sh |-> sessionHeap, us |-> users]
    ELSE [ch |-> chargerHeap, sh |-> sessionHeap, us |-> users]

\* User.end_session(): the heaps and the users after the call
end_session(u) ==
    LET s == users[u].active_session IN
    IF s # None
    THEN LET ended  == end(sessionHeap[s], now)
             duracion_minutos == get_duration(ended, now)
             coste  == Coste(users[u], duracion_minutos)
             cobro  == descontar_saldo(users[u].saldo, coste)
         IN [ch |-> [chargerHeap EXCEPT ![ended.charger].status = stop_charge(@)],
             sh |-> [sessionHeap EXCEPT ![s] = ended],
             us |-> [users EXCEPT ![u] =
                        [@ EXCEPT !.saldo = cobro.saldo,
                                  !.sessions_history = Append(@, s),
                                  !.active_session = None]]]
    ELSE [ch |-> chargerHeap, sh |-> sessionHeap, us |-> users]

\* ================================================================ Maintenance

\* Maintenance.__init__
NewMaintenance(id_mantenimiento, tipo) ==
    [id_mantenimiento |-> id_mantenimiento, tipo |-> tipo,
     estado |-> "programado", estacion_id |-> None, notas |-> ""]

\* PreventiveMaintenance.__init__ and CorrectiveMaintenance.__init__
PreventiveMaintenance(id_mantenimiento) == NewMaintenance(id_mantenimiento, "preventivo")
CorrectiveMaintenance(id_mantenimiento) == NewMaintenance(id_mantenimiento, "correctivo")

\* Maintenance.asignar_estacion
asignar_estacion(m, station_id) == [m EXCEPT !.estacion_id = station_id]

\* Maintenance.programar
programar(m) == [m EXCEPT !.estado = "programado"]

\* iniciar leaving a completed maintenance as it is
iniciar_guarded(m) ==
    IF m.estado = "completado" THEN m ELSE [m EXCEPT !.estado = "en_proceso"]

\* Maintenance.iniciar
iniciar(m) == [m EXCEPT !.estado = "en_proceso"]

\* marcar_completado forgetting the notes it is given
marcar_completado_drops_notes(m, notas) == [m EXCEPT !.estado = "completado"]

\* Maintenance.marcar_completado
marcar_completado(m, notas) == [m EXCEPT !.estado = "completado", !.notas = notas]

\* ================================================================ auth_service

\* password.encode('utf-8')[:72].decode('utf-8', errors='ignore'), for
\* passwords of one-byte characters
Truncate(password) ==
    IF Len(password) <= PasswordBytesLimit
    THEN password
    ELSE SubSeq(password, 1, PasswordBytesLimit)

\* auth_service.hash_password: an Argon2 hash stands for the text it was
\* computed from, which is all that verify can tell about it
hash_password(password) == [scheme |-> "argon2", of |-> Truncate(password)]

\* auth_service.verify_password
verify_password(plain_password, hashed_password) ==
    Truncate(plain_password) = hashed_password.of

\* ================================================================ ChargingService

UserIds == 1..MaxUsers

\* ChargingService.get_user_by_id
get_user_by_id(user_id) == IF user_id \in DOMAIN users THEN user_id ELSE None

RECURSIVE ScanEmail(_, _)
ScanEmail(i, email) ==
    IF i > Len(users) THEN None
    ELSE IF users[i].email = email THEN i ELSE ScanEmail(i + 1, email)

\* get_user_by_email finding nobody
get_user_by_email_blind(email) == None

\* ChargingService.get_user_by_email: the first user holding the email
get_user_by_email(email) == ScanEmail(1, email)

\* ChargingService.__init__
Init ==
    /\ chargerHeap = << >>
    /\ stations = EmptyMap
    /\ chargers = EmptyMap
    /\ users = << >>
    /\ sessionHeap = << >>
    /\ sessions = EmptyMap
    /\ now = 0
    /\ ticks = 0
    /\ inflight = EmptyMap
    /\ maintenances = EmptyMap
    /\ last = Call(None)

\* ChargingService.register_user; ret None stands for the ValueError
register_user(email, password, user_type, saldo_inicial) ==
    IF get_user_by_email(email) # None
    THEN /\ last' = Call(None)
         /\ UNCHANGED <<maintenances, chargerHeap, stations, chargers, users, sessionHeap,
                        sessions, now, ticks, inflight>>
    ELSE /\ Len(users) < MaxUsers
         /\ users' = Append(users, NewUser(email, hash_password(password),
                                           user_type, saldo_inicial))
         /\ last' = Call(Len(users) + 1)
         /\ UNCHANGED <<maintenances, chargerHeap, stations, chargers, sessionHeap,
                        sessions, now, ticks, inflight>>

\* what ChargingService.authenticate_user returns: the user or None
authenticate(email, password) ==
    LET user == get_user_by_email(email) IN
    IF user = None THEN None
    ELSE IF ~verify_password(password, users[user].password_hash) THEN None
    ELSE user

\* ChargingService.authenticate_user
authenticate_user(email, password) ==
    /\ last' = Call(authenticate(email, password))
    /\ UNCHANGED <<maintenances, chargerHeap, stations, chargers, users, sessionHeap,
                   sessions, now, ticks, inflight>>

\* ChargingService.create_station
create_station(id) ==
    /\ stations' = Put(stations, id, [chargers |-> << >>])
    /\ last' = Call(id)
    /\ UNCHANGED <<maintenances, chargerHeap, chargers, users, sessionHeap, sessions, now, ticks, inflight>>

\* ChargingService.delete_station
delete_station(station_id) ==
    /\ IF station_id \in DOMAIN stations
       THEN /\ stations' = Del(stations, station_id)
            /\ last' = Call(1)
       ELSE /\ UNCHANGED stations
            /\ last' = Call(0)
    /\ UNCHANGED <<maintenances, chargerHeap, chargers, users, sessionHeap, sessions, now, ticks, inflight>>

\* ChargingService.add_charger_to_station (with Station.add_charger)
add_charger_to_station(station_id, charger_id) ==
    IF station_id \notin DOMAIN stations
    THEN /\ last' = Call(None)
         /\ UNCHANGED <<maintenances, chargerHeap, stations, chargers, users, sessionHeap,
                        sessions, now, ticks, inflight>>
    ELSE /\ Len(chargerHeap) < MaxChargerObjs
         /\ chargerHeap' = Append(chargerHeap, NewCharger(charger_id, DefaultStatus))
         /\ stations' = [stations EXCEPT ![station_id].chargers =
                            Append(@, Len(chargerHeap) + 1)]
         /\ chargers' = Put(chargers, charger_id, Len(chargerHeap) + 1)
         /\ last' = Call(Len(chargerHeap) + 1)
         /\ UNCHANGED <<maintenances, users, sessionHeap, sessions, now, ticks, inflight>>

\* start_charging dropping the caller's index entry when it fails
start_charging_drops_index(user_id, station_id) ==
    LET user == get_user_by_id(user_id)
        available == IF station_id \in DOMAIN stations
                     THEN get_available_chargers(chargerHeap, stations[station_id])
                     ELSE << >>
    IN
    IF user = None \/ station_id \notin DOMAIN stations \/ available = << >>
    THEN /\ last' = Call(None)
         /\ sessions' = IF user_id \in DOMAIN sessions
                        THEN Del(sessions, user_id) ELSE sessions
         /\ UNCHANGED <<maintenances, chargerHeap, stations, chargers, users, sessionHeap,
                        now, ticks, inflight>>
    ELSE LET charger == available[1]
             r == start_session(user, charger)
         IN /\ Len(sessionHeap) < MaxSessions
            /\ chargerHeap' = r.ch
            /\ sessionHeap' = r.sh
            /\ users' = r.us
            /\ sessions' = IF r.ret # None
                           THEN Put(sessions, r.sh[r.ret].user, r.ret)
                           ELSE sessions
            /\ last' = Call(r.ret)
            /\ UNCHANGED <<maintenances, stations, chargers, now, ticks, inflight>>

\* ChargingService.get_charger: the Charger ref or None
get_charger(charger_id) ==
    IF charger_id \in DOMAIN chargers THEN chargers[charger_id] ELSE None

\* ChargingService.list_chargers: the Charger refs it lists
list_chargers == {chargers[id] : id \in DOMAIN chargers}

\* ChargingService.start_charging; ret is the Session ref or None
start_charging(user_id, station_id) ==
    LET user == get_user_by_id(user_id)
        available == IF station_id \in DOMAIN stations
                     THEN get_available_chargers(chargerHeap, stations[station_id])
                     ELSE << >>
    IN
    IF user = None \/ station_id \notin DOMAIN stations \/ available = << >>
    THEN /\ last' = Call(None)
         /\ UNCHANGED <<maintenances, chargerHeap, stations, chargers, users, sessionHeap,
                        sessions, now, ticks, inflight>>
    ELSE LET charger == available[1]
             r == start_session(user, charger)
         IN /\ Len(sessionHeap) < MaxSessions
            /\ chargerHeap' = r.ch
            /\ sessionHeap' = r.sh
            /\ users' = r.us
            /\ sessions' = IF r.ret # None
                           THEN Put(sessions, r.sh[r.ret].user, r.ret)
                           ELSE sessions
            /\ last' = Call(r.ret)
            /\ UNCHANGED <<maintenances, stations, chargers, now, ticks, inflight>>

\* end_charging reporting success for a user id it does not know
end_charging_unknown_ok(user_id) ==
    LET user == get_user_by_id(user_id) IN
    IF user = None
    THEN /\ last' = Call(1)
         /\ UNCHANGED <<maintenances, chargerHeap, stations, chargers, users, sessionHeap,
                        sessions, now, ticks, inflight>>
    ELSE LET r == end_session(user) IN
         /\ chargerHeap' = r.ch
         /\ sessionHeap' = r.sh
         /\ users' = r.us
         /\ sessions' = IF user_id \in DOMAIN sessions
                        THEN Del(sessions, user_id) ELSE sessions
         /\ last' = Call(1)
         /\ UNCHANGED <<maintenances, stations, chargers, now, ticks, inflight>>

\* end_charging leaving the user's entry in the active-session index
end_charging_keeps_index(user_id) ==
    LET user == get_user_by_id(user_id) IN
    IF user = None
    THEN /\ last' = Call(0)
         /\ UNCHANGED <<maintenances, chargerHeap, stations, chargers, users, sessionHeap,
                        sessions, now, ticks, inflight>>
    ELSE LET r == end_session(user) IN
         /\ chargerHeap' = r.ch
         /\ sessionHeap' = r.sh
         /\ users' = r.us
         /\ last' = Call(1)
         /\ UNCHANGED <<maintenances, stations, chargers, sessions, now, ticks, inflight>>

\* ChargingService.end_charging; ret 1 is True, 0 is False
end_charging(user_id) ==
    LET user == get_user_by_id(user_id) IN
    IF user = None
    THEN /\ last' = Call(0)
         /\ UNCHANGED <<maintenances, chargerHeap, stations, chargers, users, sessionHeap,
                        sessions, now, ticks, inflight>>
    ELSE LET r == end_session(user) IN
         /\ chargerHeap' = r.ch
         /\ sessionHeap' = r.sh
         /\ users' = r.us
         /\ sessions' = IF user_id \in DOMAIN sessions
                        THEN Del(sessions, user_id) ELSE sessions
         /\ last' = Call(1)
         /\ UNCHANGED <<maintenances, stations, chargers, now, ticks, inflight>>

\* recargar_saldo_usuario adding an accepted amount to every user's balance
recargar_saldo_usuario_everyone(user_id, cantidad) ==
    LET user == get_user_by_id(user_id) IN
    IF user = None
    THEN /\ last' = Call(0)
         /\ UNCHANGED <<maintenances, chargerHeap, stations, chargers, users, sessionHeap,
                        sessions, now, ticks, inflight>>
    ELSE LET r == recargar_saldo(users[user].saldo, cantidad) IN
         /\ r.saldo <= MaxSaldo
         /\ users' = [i \in DOMAIN users |->
                         [users[i] EXCEPT !.saldo = recargar_saldo(@, cantidad).saldo]]
         /\ last' = Call(IF r.ok THEN 1 ELSE 0)
         /\ UNCHANGED <<maintenances, chargerHeap, stations, chargers, sessionHeap,
                        sessions, now, ticks, inflight>>

\* ChargingService.recargar_saldo_usuario; ret 1 is True, 0 is False
recargar_saldo_usuario(user_id, cantidad) ==
    LET user == get_user_by_id(user_id) IN
    IF user = None
    THEN /\ last' = Call(0)
         /\ UNCHANGED <<maintenances, chargerHeap, stations, chargers, users, sessionHeap,
                        sessions, now, ticks, inflight>>
    ELSE LET r == recargar_saldo(users[user].saldo, cantidad) IN
         /\ r.saldo <= MaxSaldo
         /\ users' = [users EXCEPT ![user].saldo = r.saldo]
         /\ last' = Call(IF r.ok THEN 1 ELSE 0)
         /\ UNCHANGED <<maintenances, chargerHeap, stations, chargers, sessionHeap,
                        sessions, now, ticks, inflight>>

\* ChargingService.programar_mantenimiento_preventivo
programar_mantenimiento_preventivo(id_mantenimiento, station_id) ==
    LET m == asignar_estacion(PreventiveMaintenance(id_mantenimiento), station_id) IN
    /\ maintenances' = Put(maintenances, id_mantenimiento, programar(m))
    /\ last' = Call(id_mantenimiento)
    /\ UNCHANGED <<chargerHeap, stations, chargers, users, sessionHeap,
                   sessions, now, ticks, inflight>>

\* ChargingService.programar_mantenimiento_correctivo
programar_mantenimiento_correctivo(id_mantenimiento, station_id) ==
    LET m == asignar_estacion(CorrectiveMaintenance(id_mantenimiento), station_id) IN
    /\ maintenances' = Put(maintenances, id_mantenimiento, programar(m))
    /\ last' = Call(id_mantenimiento)
    /\ UNCHANGED <<chargerHeap, stations, chargers, users, sessionHeap,
                   sessions, now, ticks, inflight>>

\* ChargingService.iniciar_mantenimiento; ret is the id or None
iniciar_mantenimiento(id_mantenimiento) ==
    /\ IF id_mantenimiento \notin DOMAIN maintenances
       THEN /\ last' = Call(None)
            /\ UNCHANGED maintenances
       ELSE /\ maintenances' = [maintenances EXCEPT ![id_mantenimiento] = iniciar(@)]
            /\ last' = Call(id_mantenimiento)
    /\ UNCHANGED <<chargerHeap, stations, chargers, users, sessionHeap,
                   sessions, now, ticks, inflight>>

\* ChargingService.completar_mantenimiento; ret is the id or None
completar_mantenimiento(id_mantenimiento, notas) ==
    /\ IF id_mantenimiento \notin DOMAIN maintenances
       THEN /\ last' = Call(None)
            /\ UNCHANGED maintenances
       ELSE /\ maintenances' = [maintenances EXCEPT ![id_mantenimiento] =
                                    marcar_completado(@, notas)]
            /\ last' = Call(id_mantenimiento)
    /\ UNCHANGED <<chargerHeap, stations, chargers, users, sessionHeap,
                   sessions, now, ticks, inflight>>

\* what ChargingService.get_station_disponibilidad returns; the percentage
\* disponibles / total * 100 is kept as the fraction num / den
station_disponibilidad(station_id) ==
    IF station_id \notin DOMAIN stations
    THEN [error |-> "Estacion no encontrada"]
    ELSE LET station == stations[station_id]
             total == Len(station.chargers)
             disponibles == Len(get_available_chargers(chargerHeap, station))
             ocupados == total - disponibles
         IN [station_id |-> station_id,
             total_chargers |-> total,
             disponibles |-> disponibles,
             ocupados |-> ocupados,
             porcentaje_disponibilidad |->
                 IF total > 0 THEN [num |-> disponibles * 100, den |-> total]
                 ELSE [num |-> 0, den |-> 1]]

\* ChargingService.get_station_disponibilidad
get_station_disponibilidad(station_id) ==
    /\ last' = [op |-> "get_station_disponibilidad", a |-> station_id,
                out |-> station_disponibilidad(station_id)]
    /\ UNCHANGED <<maintenances, chargerHeap, stations, chargers, users, sessionHeap,
                   sessions, now, ticks, inflight>>

\* the wall clock that datetime.now() reads moves forward
Tick(dt) ==
    /\ ticks < MaxTicks
    /\ now' = now + dt
    /\ ticks' = ticks + 1
    /\ UNCHANGED <<maintenances, chargerHeap, stations, chargers, users, sessionHeap, sessions,
                   last, inflight>>

\* the registry's operations while the clock stands still
Next ==
    \/ \E e \in Emails : register_user(e, DemoPassword, "individual", 0)
    \/ \E id \in StationIds : create_station(id)
    \/ \E id \in StationIds : delete_station(id)
    \/ \E st \in StationIds, c \in ChargerIds : add_charger_to_station(st, c)
    \/ \E u \in UserIds, st \in StationIds : start_charging(u, st)
    \/ \E u \in UserIds : end_charging(u)

Spec == Init /\ [][Next]_vars

\* ChargingService.listar_mantenimientos(): the maintenances it lists
listar_mantenimientos == {maintenances[id] : id \in DOMAIN maintenances}

\* what ChargingService.get_station_consumo returns for a station it knows
get_station_consumo(station_id) ==
    LET held == {stations[station_id].chargers[i] :
                    i \in DOMAIN stations[station_id].chargers} IN
    [station_id |-> station_id,
     total_sesiones |->
         Cardinality({u \in DOMAIN sessions : sessionHeap[sessions[u]].charger \in held}),
     sesiones_activas |->
         Cardinality({i \in DOMAIN stations[station_id].chargers :
                         chargerHeap[stations[station_id].chargers[i]].status = "ocupado"})]

\* ================================================================ main (API)

\* the None that decode_access_token returns in place of an email
NoEmail == "None"

\* a token decoded without a look at its signature or expiry
decode_access_token_unverified(token) == token.sub

\* auth_service.decode_access_token: the email or None
decode_access_token(token) ==
    IF token.signed /\ token.exp >= now THEN token.sub ELSE NoEmail

\* main.get_current_user: 200 with the user, or the status of the HTTPException
get_current_user(token) ==
    LET email == decode_access_token(token) IN
    IF email = NoEmail THEN [status |-> 401, user |-> None]
    ELSE LET user == get_user_by_email(email) IN
         IF user = None THEN [status |-> 401, user |-> None]
         ELSE [status |-> 200, user |-> user]

\* get_current_admin letting every authenticated user through
get_current_admin_any_user(token) == get_current_user(token)

\* main.get_current_admin
get_current_admin(token) ==
    LET current_user == get_current_user(token) IN
    IF current_user.status # 200 THEN current_user
    ELSE LET user == get_user_by_id(current_user.user) IN
         IF user = None \/ users[user].user_type # "admin"
         THEN [status |-> 403, user |-> None]
         ELSE current_user

\* the body of an HTTPException
NoBody == [detail |-> "error"]

\* the response of a request that leaves the registry untouched: an
\* HTTPException or what a read-only endpoint returns
Respond(status, body) ==
    /\ last' = [op |-> "http", ret |-> status, body |-> body]
    /\ UNCHANGED <<maintenances, chargerHeap, stations, chargers, users, sessionHeap,
                   sessions, now, ticks, inflight>>

\* POST /stations
api_crear_estacion(token, id) ==
    LET admin == get_current_admin(token) IN
    IF admin.status # 200 THEN Respond(admin.status, NoBody) ELSE create_station(id)

\* DELETE /stations/{station_id}
api_eliminar_estacion(token, station_id) ==
    LET admin == get_current_admin(token) IN
    IF admin.status # 200 THEN Respond(admin.status, NoBody) ELSE delete_station(station_id)

\* POST /stations/{station_id}/chargers
api_anadir_cargador(token, station_id, charger_id) ==
    LET admin == get_current_admin(token) IN
    IF admin.status # 200 THEN Respond(admin.status, NoBody)
    ELSE add_charger_to_station(station_id, charger_id)

\* GET /users
api_listar_usuarios(token) ==
    LET admin == get_current_admin(token) IN
    IF admin.status # 200 THEN Respond(admin.status, NoBody)
    ELSE Respond(200, [users |-> [i \in DOMAIN users |-> users[i].email]])

\* GET /stations/{station_id}/reporte-consumo
api_obtener_reporte_consumo(token, station_id) ==
    LET admin == get_current_admin(token) IN
    IF admin.status # 200 THEN Respond(admin.status, NoBody)
    ELSE IF station_id \notin DOMAIN stations THEN Respond(404, NoBody)
    ELSE Respond(200, get_station_consumo(station_id))

\* POST /maintenance
api_programar_mantenimiento(token, id_mantenimiento, station_id, tipo) ==
    LET admin == get_current_admin(token) IN
    IF admin.status # 200 THEN Respond(admin.status, NoBody)
    ELSE IF tipo = "preventivo"
         THEN programar_mantenimiento_preventivo(id_mantenimiento, station_id)
         ELSE IF tipo = "correctivo"
         THEN programar_mantenimiento_correctivo(id_mantenimiento, station_id)
         ELSE Respond(400, NoBody)

\* GET /maintenance
api_listar_mantenimientos(token) ==
    LET admin == get_current_admin(token) IN
    IF admin.status # 200 THEN Respond(admin.status, NoBody)
    ELSE Respond(200, [maintenances |-> listar_mantenimientos])

\* POST /maintenance/{id_mantenimiento}/iniciar
api_iniciar_mantenimiento(token, id_mantenimiento) ==
    LET admin == get_current_admin(token) IN
    IF admin.status # 200 THEN Respond(admin.status, NoBody)
    ELSE iniciar_mantenimiento(id_mantenimiento)

\* POST /maintenance/{id_mantenimiento}/completar
api_completar_mantenimiento(token, id_mantenimiento, notas) ==
    LET admin == get_current_admin(token) IN
    IF admin.status # 200 THEN Respond(admin.status, NoBody)
    ELSE completar_mantenimiento(id_mantenimiento, notas)

\* a request to one of the admin-only endpoints made with the token
AdminRequest(token) ==
    \/ \E id \in ApiStationIds : api_crear_estacion(token, id)
    \/ \E id \in ApiStationIds : api_eliminar_estacion(token, id)
    \/ \E st \in ApiStationIds, c \in ApiChargerIds : api_anadir_cargador(token, st, c)
    \/ api_listar_usuarios(token)
    \/ \E st \in ApiStationIds : api_obtener_reporte_consumo(token, st)
    \/ \E id \in ApiMaintIds, st \in ApiStationIds, tipo \in ApiTipos :
          api_programar_mantenimiento(token, id, st, tipo)
    \/ api_listar_mantenimientos(token)
    \/ \E id \in ApiMaintIds : api_iniciar_mantenimiento(token, id)
    \/ \E id \in ApiMaintIds, notas \in ApiNotes :
          api_completar_mantenimiento(token, id, notas)

\* POST /users/{user_id}/recargar-saldo
api_recargar_saldo(token, user_id, cantidad) ==
    LET current_user == get_current_user(token) IN
    IF current_user.status # 200 THEN Respond(current_user.status, NoBody)
    ELSE IF user_id # current_user.user THEN Respond(403, NoBody)
    ELSE IF get_user_by_id(user_id) = None THEN Respond(404, NoBody)
    ELSE recargar_saldo_usuario(user_id, cantidad)

\* POST /sessions
api_crear_sesion(token, user_id, station_id) ==
    LET current_user == get_current_user(token) IN
    IF current_user.status # 200 THEN Respond(current_user.status, NoBody)
    ELSE IF user_id # current_user.user THEN Respond(403, NoBody)
    ELSE start_charging(user_id, station_id)

\* POST /sessions/cerrar
api_cerrar_sesion(token, user_id) ==
    LET current_user == get_current_user(token) IN
    IF current_user.status # 200 THEN Respond(current_user.status, NoBody)
    ELSE IF user_id # current_user.user THEN Respond(403, NoBody)
    ELSE IF get_user_by_id(user_id) = None \/ users[user_id].active_session = None
    THEN Respond(400, NoBody)
    ELSE end_charging(user_id)

\* a request with the token to recharge the balance of the user user_id or
\* to start or close that user's session
UserRequest(token, user_id) ==
    \/ \E a \in ApiAmounts : api_recargar_saldo(token, user_id, a)
    \/ \E st \in ApiStationIds : api_crear_sesion(token, user_id, st)
    \/ api_cerrar_sesion(token, user_id)

\* ---------------------------------------------------------------- admin API
\* The API after two users of any types have registered; requests to the
\* admin-only endpoints arrive with any token.
InitApi ==
    /\ chargerHeap = << >>
    /\ stations = EmptyMap
    /\ chargers = EmptyMap
    /\ \E q \in [1..2 -> Emails], t \in [1..2 -> {"individual", "admin"}] :
          /\ q[1] # q[2]
          /\ users = [i \in 1..2 |-> NewUser(q[i], hash_password(DemoPassword), t[i], 0)]
    /\ sessionHeap = << >>
    /\ sessions = EmptyMap
    /\ now = 0
    /\ ticks = 0
    /\ inflight = EmptyMap
    /\ maintenances = EmptyMap
    /\ last = Call(1)

NextApiAdmin == \E token \in Tokens : AdminRequest(token)

SpecApiAdmin == InitApi /\ [][NextApiAdmin]_vars

\* ---------------------------------------------------------------- user API
\* The API after two users have registered and an admin has created station
\* 1 with charger 101; requests on balances and sessions arrive with any
\* token and any user id.
InitApiUser ==
    /\ chargerHeap = <<NewCharger(101, DefaultStatus)>>
    /\ stations = Put(EmptyMap, 1, [chargers |-> <<1>>])
    /\ chargers = Put(EmptyMap, 101, 1)
    /\ \E q \in [1..2 -> Emails] :
          /\ q[1] # q[2]
          /\ users = [i \in 1..2 |-> NewUser(q[i], hash_password(DemoPassword),
                                              "individual", 0)]
    /\ sessionHeap = << >>
    /\ sessions = EmptyMap
    /\ now = 0
    /\ ticks = 0
    /\ inflight = EmptyMap
    /\ maintenances = EmptyMap
    /\ last = Call(1)

NextApiUser == \E token \in Tokens, u \in UserIds : UserRequest(token, u)

SpecApiUser == InitApiUser /\ [][NextApiUser]_vars

\* ---------------------------------------------------------------- accounts
\* Registration and login on a fresh ChargingService.
NextUsers ==
    \/ \E e \in Emails, p \in Passwords, t \in UserTypes, b \in InitialBalances :
          register_user(e, p, t, b)
    \/ \E e \in Emails, p \in Passwords : authenticate_user(e, p)

SpecUsers == Init /\ [][NextUsers]_vars

\* ---------------------------------------------------------------- maintenance
\* The registry's maintenance operations on a fresh ChargingService.
NextMaint ==
    \/ \E id \in MaintIds, st \in StationIds : programar_mantenimiento_preventivo(id, st)
    \/ \E id \in MaintIds, st \in StationIds : programar_mantenimiento_correctivo(id, st)
    \/ \E id \in MaintIds : iniciar_mantenimiento(id)
    \/ \E id \in MaintIds, notas \in NotesInputs : completar_mantenimiento(id, notas)

SpecMaint == Init /\ [][NextMaint]_vars

\* ---------------------------------------------------------------- billing
\* The registry after create_station(1), add_charger_to_station(1, 101) and
\* one register_user: the user charges and recharges while time passes.
InitBilling ==
    /\ chargerHeap = <<NewCharger(101, DefaultStatus)>>
    /\ stations = Put(EmptyMap, 1, [chargers |-> <<1>>])
    /\ chargers = Put(EmptyMap, 101, 1)
    /\ \E e \in Emails, t \in UserTypes, b \in InitialBalances :
           users = <<NewUser(e, hash_password(DemoPassword), t, b)>>
    /\ sessionHeap = << >>
    /\ sessions = EmptyMap
    /\ now = 0
    /\ ticks = 0
    /\ inflight = EmptyMap
    /\ maintenances = EmptyMap
    /\ last = Call(1)

NextBilling ==
    \/ \E u \in UserIds, st \in StationIds : start_charging(u, st)
    \/ \E u \in UserIds : end_charging(u)
    \/ \E u \in UserIds, a \in RechargeAmounts : recargar_saldo_usuario(u, a)
    \/ \E dt \in TickSteps : Tick(dt)

SpecBilling == InitBilling /\ [][NextBilling]_vars

\* ---------------------------------------------------------------- sessions
\* The registry after register_user, create_station and add_charger_to_station
\* calls have set up a network: station 1 with any number of chargers,
\* station 2 absent or without chargers, any number of registered users.
\* From there users start and end charging, the clock standing still.
InitSessions ==
    /\ \E k \in 0..MaxChargerObjs :
          /\ chargerHeap = [i \in 1..k |-> NewCharger(100 + i, DefaultStatus)]
          /\ chargers = [id \in {100 + i : i \in 1..k} |-> id - 100]
          /\ \E others \in {EmptyMap, Put(EmptyMap, 2, [chargers |-> << >>])} :
                stations = Put(others, 1, [chargers |-> [i \in 1..k |-> i]])
    /\ \E n \in 0..MaxUsers :
          \E q \in [1..n -> Emails] :
              /\ \A i, j \in 1..n : i # j => q[i] # q[j]
              /\ users = [i \in 1..n |-> NewUser(q[i], hash_password(DemoPassword),
                                                  "individual", 0)]
    /\ sessionHeap = << >>
    /\ sessions = EmptyMap
    /\ now = 0
    /\ ticks = 0
    /\ inflight = EmptyMap
    /\ maintenances = EmptyMap
    /\ last = Call(1)

NextSessions ==
    \/ \E u \in UserIds, st \in StationIds : start_charging(u, st)
    \/ \E u \in UserIds : end_charging(u)

SpecSessions == InitSessions /\ [][NextSessions]_vars

\* ---------------------------------------------------------------- long sessions
\* The registry of the billing runs, with time steps that carry an open
\* session up to and across its first 24 hours.
NextClock ==
    \/ \E u \in UserIds, st \in StationIds : start_charging(u, st)
    \/ \E u \in UserIds : end_charging(u)
    \/ \E dt \in ClockSteps : Tick(dt)

SpecClock == InitBilling /\ [][NextClock]_vars

\* ---------------------------------------------------------------- Session.end
\* The registry of the billing runs, where the sessions that start_charging
\* hands out are ended by calling Session.end on them while time passes.

\* session.end() on the Session object s
SessionEnd(s) ==
    /\ sessionHeap' = [sessionHeap EXCEPT ![s] = end(@, now)]
    /\ last' = [op |-> "end", a |-> s]
    /\ UNCHANGED <<maintenances, chargerHeap, stations, chargers, users, sessions,
                   now, ticks, inflight>>

NextSessionEnd ==
    \/ \E u \in UserIds, st \in StationIds : start_charging(u, st)
    \/ \E s \in DOMAIN sessionHeap : SessionEnd(s)
    \/ \E dt \in TickSteps : Tick(dt)

SpecSessionEnd == InitBilling /\ [][NextSessionEnd]_vars

\* ---------------------------------------------------------------- several users
\* The registry after two users have registered and station 1 has been given
\* charger 101: the users recharge, start and end charging while time
\* passes two minutes at a time.

\* seconds of a clock step: a session of that length costs less than one
\* recharge
FrameSteps == {120}

NextFrame ==
    \/ \E u \in UserIds, st \in StationIds : start_charging(u, st)
    \/ \E u \in UserIds : end_charging(u)
    \/ \E u \in UserIds, a \in RechargeAmounts : recargar_saldo_usuario(u, a)
    \/ \E dt \in FrameSteps : Tick(dt)

SpecFrame == InitApiUser /\ [][NextFrame]_vars

\* ---------------------------------------------------------------- concurrent starts
\* The endpoints of main.py are plain functions, which the server runs on a
\* pool of threads: start_charging calls for different users run side by
\* side on the one ChargingService, a thread switch being possible between
\* any two statements. Each call keeps its locals in inflight.

\* the record of a start_charging call that has returned: seen is the number
\* of Session objects that existed when it read the available chargers
Returned(ret, seen) == [op |-> "start_charging", ret |-> ret, seen |-> seen]

\* start_charging up to charger = available[0]
start_charging_begin(user_id, station_id) ==
    LET user == get_user_by_id(user_id)
        available == IF station_id \in DOMAIN stations
                     THEN get_available_chargers(chargerHeap, stations[station_id])
                     ELSE << >>
    IN
    /\ user_id \notin DOMAIN inflight
    /\ IF user = None \/ station_id \notin DOMAIN stations \/ available = << >>
       THEN /\ last' = Returned(None, Len(sessionHeap))
            /\ UNCHANGED inflight
       ELSE /\ inflight' = Put(inflight, user_id,
                               [pc |-> "start_session", charger |-> available[1],
                                seen |-> Len(sessionHeap), session |-> None])
            /\ UNCHANGED last
    /\ UNCHANGED <<maintenances, chargerHeap, stations, chargers, users, sessionHeap,
                   sessions, now, ticks>>

\* User.start_session: the test of charger.status
start_session_check(user_id) ==
    /\ user_id \in DOMAIN inflight
    /\ inflight[user_id].pc = "start_session"
    /\ IF StartSessionAccepts(chargerHeap[inflight[user_id].charger].status)
       THEN /\ inflight' = [inflight EXCEPT ![user_id].pc = "start_charge"]
            /\ UNCHANGED last
       ELSE /\ inflight' = Del(inflight, user_id)
            /\ last' = Returned(None, inflight[user_id].seen)
    /\ UNCHANGED <<maintenances, chargerHeap, stations, chargers, users, sessionHeap,
                   sessions, now, ticks>>

\* User.start_session: charger.start_charge()
start_session_mark(user_id) ==
    /\ user_id \in DOMAIN inflight
    /\ inflight[user_id].pc = "start_charge"
    /\ chargerHeap' = [chargerHeap EXCEPT ![inflight[user_id].charger].status =
                           start_charge(@)]
    /\ inflight' = [inflight EXCEPT ![user_id].pc = "Session"]
    /\ UNCHANGED <<maintenances, stations, chargers, users, sessionHeap, sessions,
                   now, ticks, last>>

\* User.start_session: self.active_session = Session(self, charger)
start_session_create(user_id) ==
    /\ user_id \in DOMAIN inflight
    /\ inflight[user_id].pc = "Session"
    /\ Len(sessionHeap) < MaxSessions
    /\ sessionHeap' = Append(sessionHeap,
                             NewSession(user_id, inflight[user_id].charger, now))
    /\ users' = [users EXCEPT ![user_id].active_session = Len(sessionHeap) + 1]
    /\ inflight' = [inflight EXCEPT ![user_id].pc = "index",
                                    ![user_id].session = Len(sessionHeap) + 1]
    /\ UNCHANGED <<maintenances, chargerHeap, stations, chargers, sessions,
                   now, ticks, last>>

\* start_charging from self.sessions[session.user.id] = session to its return
start_charging_return(user_id) ==
    /\ user_id \in DOMAIN inflight
    /\ inflight[user_id].pc = "index"
    /\ LET session == inflight[user_id].session IN
       /\ sessions' = Put(sessions, sessionHeap[session].user, session)
       /\ last' = Returned(session, inflight[user_id].seen)
    /\ inflight' = Del(inflight, user_id)
    /\ UNCHANGED <<maintenances, chargerHeap, stations, chargers, users, sessionHeap,
                   now, ticks>>

NextRace ==
    \/ \E u \in UserIds, st \in StationIds : start_charging_begin(u, st)
    \/ \E u \in UserIds : start_session_check(u)
    \/ \E u \in UserIds : start_session_mark(u)
    \/ \E u \in UserIds : start_session_create(u)
    \/ \E u \in UserIds : start_charging_return(u)

SpecRace == InitSessions /\ [][NextRace]_vars

\* ---------------------------------------------------------------- the model classes
\* Charger and Station used directly, as the classes of models/ allow:
\* chargers constructed with any status and added to station 1 in any order.

\* the sequences without repetition over 1..n
Arrangements(n) ==
    {q \in UNION {[1..k -> 1..n] : k \in 0..n} :
        \A i, j \in DOMAIN q : i # j => q[i] # q[j]}

InitModels ==
    /\ chargerHeap \in
           {h \in [1..MaxChargerObjs ->
                     {NewCharger(100 + i, st) : i \in 1..MaxChargerObjs, st \in StatusInputs}] :
               \A i \in 1..MaxChargerObjs : h[i].id = 100 + i}
    /\ \E q \in Arrangements(MaxChargerObjs) :
           stations = Put(EmptyMap, 1, [chargers |-> q])
    /\ chargers = EmptyMap
    /\ users = << >>
    /\ sessionHeap = << >>
    /\ sessions = EmptyMap
    /\ now = 0
    /\ ticks = 0
    /\ inflight = EmptyMap
    /\ maintenances = EmptyMap
    /\ last = Call(None)

\* the record of a call on a charger: pre is the status before the call, from
\* the status before the start_charge that immediately preceded it on the
\* same charger ("" when the previous call was something else)
ChargerCall(op, c, pre) ==
    [op |-> op, a |-> c, pre |-> pre,
     from |-> IF last.op = "start_charge" /\ last.a = c THEN last.pre ELSE ""]

\* charger.start_charge() on the Charger object c
ChargerStartCharge(c) ==
    /\ chargerHeap' = [chargerHeap EXCEPT ![c].status = start_charge(@)]
    /\ last' = ChargerCall("start_charge", c, chargerHeap[c].status)
    /\ UNCHANGED <<maintenances, stations, chargers, users, sessionHeap, sessions, now, ticks, inflight>>

\* charger.stop_charge() on the Charger object c
ChargerStopCharge(c) ==
    /\ chargerHeap' = [chargerHeap EXCEPT ![c].status = stop_charge(@)]
    /\ last' = ChargerCall("stop_charge", c, chargerHeap[c].status)
    /\ UNCHANGED <<maintenances, stations, chargers, users, sessionHeap, sessions, now, ticks, inflight>>

\* station.get_available_chargers() on the station with the id st
StationGetAvailableChargers(st) ==
    /\ st \in DOMAIN stations
    /\ last' = [op |-> "get_available_chargers", a |-> st,
                out |-> get_available_chargers(chargerHeap, stations[st])]
    /\ UNCHANGED <<maintenances, chargerHeap, stations, chargers, users, sessionHeap, sessions,
                   now, ticks, inflight>>

\* station.reserve_charger() on the station with the id st; heap keeps the
\* Charger objects as they were before the call
StationReserveCharger(st) ==
    /\ st \in DOMAIN stations
    /\ LET r == reserve_charger(chargerHeap, stations[st]) IN
       /\ chargerHeap' = r.ch
       /\ last' = [op |-> "reserve_charger", a |-> st, ret |-> r.ret,
                   heap |-> chargerHeap]
    /\ UNCHANGED <<maintenances, stations, chargers, users, sessionHeap, sessions, now, ticks, inflight>>

NextModels ==
    \/ \E c \in DOMAIN chargerHeap : ChargerStartCharge(c)
    \/ \E c \in DOMAIN chargerHeap : ChargerStopCharge(c)
    \/ \E st \in StationIds : StationGetAvailableChargers(st)
    \/ \E st \in StationIds : StationReserveCharger(st)
    \/ \E st \in StationIds : get_station_disponibilidad(st)

SpecModels == InitModels /\ [][NextModels]_vars

\* ================================================================ properties

\* The two words the code uses for a charger that can take a session
\* (User.start_session accepts both) and its one word for a charger in use.
IsAvailable(status) == status \in {"available", "disponible"}
IsOccupied(status) == status = "ocupado"

\* the place of the charger ref c in the sequence refs, 0 when absent
RECURSIVE IndexOf(_, _, _)
IndexOf(refs, c, i) ==
    IF i > Len(refs) THEN 0
    ELSE IF refs[i] = c THEN i ELSE IndexOf(refs, c, i + 1)

\* the sessions that are open and still held by their user
OpenHeld == {s \in DOMAIN sessionHeap :
                /\ sessionHeap[s].end_time = NoTime
                /\ \E u \in DOMAIN users : users[u].active_session = s}

\* C1: at most one open session (end_time unset) references any given charger.
C1_OneOpenSessionPerCharger ==
    \A s1, s2 \in OpenHeld :
        sessionHeap[s1].charger = sessionHeap[s2].charger => s1 = s2

\* C2: after a successful start_charging the session's charger is occupied,
\* the user's active_session is the returned session, and no station's
\* available_chargers() returns that charger any more.
C2_StartOccupiesCharger ==
    [][\A u \in UserIds, st \in StationIds :
          (start_charging(u, st) /\ last'.ret # None) =>
              LET c == sessionHeap'[last'.ret].charger IN
              /\ IsOccupied(chargerHeap'[c].status)
              /\ users'[u].active_session = last'.ret
              /\ IndexOf(get_available_chargers(chargerHeap', stations'[st]), c, 1) = 0]_vars

\* C3: start_charging for a user who already has an active session returns
\* nothing and leaves the user's active session and the registry's entry
\* for that user as they were.
C3_SecondStartRefused ==
    [][\A u \in UserIds, st \in StationIds :
          (/\ u \in DOMAIN users
           /\ users[u].active_session # None
           /\ start_charging(u, st))
          => /\ last'.ret = None
             /\ users'[u].active_session = users[u].active_session
             /\ (u \in DOMAIN sessions) = (u \in DOMAIN sessions')
             /\ u \in DOMAIN sessions => sessions'[u] = sessions[u]]_vars

\* C4: no two sessions whose end_time is unset belong to the same user.
C4_OneOpenSessionPerUser ==
    \A s1, s2 \in DOMAIN sessionHeap :
        (/\ sessionHeap[s1].end_time = NoTime
         /\ sessionHeap[s2].end_time = NoTime
         /\ sessionHeap[s1].user = sessionHeap[s2].user) => s1 = s2

\* the cost end_session finds for the session s of user u once s has ended
CosteFound(u, s) == Coste(users[u], get_duration(sessionHeap[s], now))

\* C5: a balance that is not negative stays not negative through every
\* recharge, start_charging and end_charging, and a debit of more than the
\* balance leaves the balance as it was.
C5_BalanceNeverNegative ==
    [][\A u \in DOMAIN users :
          /\ users[u].saldo >= 0 => users'[u].saldo >= 0
          /\ (/\ users[u].active_session # None
              /\ end_charging(u)
              /\ users[u].saldo <
                     Coste(users[u],
                           get_duration(end(sessionHeap[users[u].active_session], now),
                                        now)))
             => users'[u].saldo = users[u].saldo]_vars

\* a debit was refused: the user's last session cost more than the balance
\* that user holds, a balance that only a recharge from zero can have left
C5_Witness ==
    /\ last.ret = 1
    /\ \E u \in DOMAIN users :
          /\ users[u].sessions_history # << >>
          /\ users[u].saldo >= 0
          /\ users[u].saldo <= MaxSaldo
          /\ CosteFound(u, users[u].sessions_history[Len(users[u].sessions_history)])
                 > users[u].saldo

\* C6: end_session on a session that lasted d whole minutes, for a balance
\* of at least d * 0.5 * tariff, leaves the balance smaller by exactly
\* d * 0.5 * tariff (tariff 0.25 for empresa, 0.30 for every other role).
C6_DebitIsElapsedCost ==
    [][\A u \in UserIds :
          (/\ u \in DOMAIN users
           /\ users[u].active_session # None
           /\ end_charging(u))
          => LET s == sessionHeap[users[u].active_session]
                 d == (now - s.start_time) \div 60
                 tariff == IF users[u].user_type = "empresa" THEN 250 ELSE 300
                 cost == (d * 5 * tariff) \div 10
             IN users[u].saldo >= cost
                    => users'[u].saldo = users[u].saldo - cost]_vars

\* C7: when end_session finds the balance smaller than the session's cost,
\* the session is closed all the same: end_time set, session appended to the
\* history, charger available again, active_session cleared, balance untouched.
C7_ShortfallStillCloses ==
    [][\A u \in UserIds :
          (/\ u \in DOMAIN users
           /\ users[u].active_session # None
           /\ end_charging(u)
           /\ users[u].saldo <
                  Coste(users[u],
                        get_duration(sessionHeap'[users[u].active_session], now)))
          => LET s == users[u].active_session IN
             /\ sessionHeap'[s].end_time = now
             /\ users'[u].sessions_history = Append(users[u].sessions_history, s)
             /\ IsAvailable(chargerHeap'[sessionHeap[s].charger].status)
             /\ users'[u].active_session = None
             /\ users'[u].saldo = users[u].saldo]_vars

\* a session that ran ten minutes or more was closed for a user without money
C7_Witness ==
    /\ last.ret = 1
    /\ \E u \in DOMAIN users :
          /\ users[u].active_session = None
          /\ users[u].saldo = 0
          /\ \E i \in DOMAIN users[u].sessions_history :
                LET s == users[u].sessions_history[i] IN
                /\ sessionHeap[s].end_time = now
                /\ CosteFound(u, s) >= 1250
                /\ IsAvailable(chargerHeap[sessionHeap[s].charger].status)

\* C8: start_charge() turns an available charger (the default status of a
\* new charger included) into an occupied one and leaves any other status.
C8_StartChargeOccupies ==
    last.op = "start_charge" =>
        IF IsAvailable(last.pre)
        THEN IsOccupied(chargerHeap[last.a].status)
        ELSE chargerHeap[last.a].status = last.pre

\* C9: start_charge() and then at once stop_charge() on a charger that was
\* available leaves it available; stop_charge() on an available charger
\* leaves its status as it was.
C9_StartStopRestores ==
    last.op = "stop_charge" =>
        /\ IsAvailable(last.from) => IsAvailable(chargerHeap[last.a].status)
        /\ IsAvailable(last.pre) => chargerHeap[last.a].status = last.pre

\* stop_charge() came right after a start_charge() that took the charger
\* from available to occupied
C9_Witness ==
    /\ last.op = "stop_charge"
    /\ IsAvailable(last.from)
    /\ IsOccupied(last.pre)
    /\ IsAvailable(chargerHeap[last.a].status)

\* C10: available_chargers() returns exactly the station's chargers whose
\* status is available, in the order they were added, and never one that is
\* occupied or in maintenance.
C10_AvailableChargersExact ==
    last.op = "get_available_chargers" =>
        LET refs == stations[last.a].chargers
            out  == last.out
        IN /\ \A i \in DOMAIN out :
                 /\ IndexOf(refs, out[i], 1) # 0
                 /\ IsAvailable(chargerHeap[out[i]].status)
                 /\ chargerHeap[out[i]].status \notin {"ocupado", "mantenimiento"}
           /\ \A j \in DOMAIN refs :
                 IsAvailable(chargerHeap[refs[j]].status)
                     => \E i \in DOMAIN out : out[i] = refs[j]
           /\ \A i, k \in DOMAIN out :
                 i < k => IndexOf(refs, out[i], 1) < IndexOf(refs, out[k], 1)

\* C11: reserve_first_available() returns the earliest-added charger whose
\* status is available, leaves it occupied and every other charger as it
\* was; with no available charger it returns nothing and changes no charger.
C11_ReserveEarliestAvailable ==
    last.op = "reserve_charger" =>
        LET refs  == stations[last.a].chargers
            avail == {j \in DOMAIN refs : IsAvailable(last.heap[refs[j]].status)}
        IN IF avail # {}
           THEN LET first == refs[CHOOSE j \in avail : \A k \in avail : j <= k] IN
                /\ last.ret = first
                /\ IsOccupied(chargerHeap[first].status)
                /\ \A c \in DOMAIN chargerHeap :
                      c # first => chargerHeap[c] = last.heap[c]
           ELSE /\ last.ret = None
                /\ chargerHeap = last.heap

\* the refs of the station's chargers whose status is available, as positions
\* in the station's list
AvailablePositions(st) ==
    {j \in DOMAIN stations[st].chargers :
        IsAvailable(chargerHeap[stations[st].chargers[j]].status)}

\* C12: a start_charging that returns a session has bound it to the
\* earliest-added available charger of the requested station and has stored
\* that session in the active-session index under the user's id.
C12_StartBindsEarliestAndIndexes ==
    [][\A u \in UserIds, st \in StationIds :
          (start_charging(u, st) /\ last'.ret # None) =>
              /\ AvailablePositions(st) # {}
              /\ LET first == CHOOSE j \in AvailablePositions(st) :
                                  \A k \in AvailablePositions(st) : j <= k
                 IN sessionHeap'[last'.ret].charger = stations[st].chargers[first]
              /\ sessionHeap'[last'.ret].user = u
              /\ u \in DOMAIN sessions'
              /\ sessions'[u] = last'.ret]_vars

\* a station with two chargers, and a user whose indexed, active session is
\* on the one added first
C12_Witness ==
    \E st \in DOMAIN stations, u \in DOMAIN sessions :
        /\ Len(stations[st].chargers) = 2
        /\ users[u].active_session = sessions[u]
        /\ last.ret = sessions[u]
        /\ sessionHeap[sessions[u]].charger = stations[st].chargers[1]

\* C13: start_charging for an unknown user id, an unknown station id or a
\* station without an available charger returns nothing and changes no
\* charger status, no user's active_session or history and no index entry.
C13_FailedStartChangesNothing ==
    [][\A u \in UserIds, st \in StationIds :
          (/\ start_charging(u, st)
           /\ \/ u \notin DOMAIN users
              \/ st \notin DOMAIN stations
              \/ AvailablePositions(st) = {}) =>
              /\ last'.ret = None
              /\ chargerHeap' = chargerHeap
              /\ \A i \in DOMAIN users :
                    /\ users'[i].active_session = users[i].active_session
                    /\ users'[i].sessions_history = users[i].sessions_history
              /\ sessions' = sessions]_vars

\* a refused start_charging leads here from this very state: a user with an
\* indexed session, an unknown user id, and a station without a charger or
\* an unknown station id
C13_Witness ==
    /\ last.ret = None
    /\ sessions # EmptyMap
    /\ Len(users) < MaxUsers
    /\ \E st \in StationIds :
          st \in DOMAIN stations => stations[st].chargers = << >>

\* C14: end_charging for an unknown user id returns False and changes
\* nothing; for a known user without an active session it changes no balance,
\* no history and no charger status and leaves no index entry for the user.
C14_EndWithoutSession ==
    [][\A u \in UserIds :
          end_charging(u) =>
              /\ u \notin DOMAIN users =>
                    /\ last'.ret = 0
                    /\ UNCHANGED <<maintenances, chargerHeap, stations, chargers, users,
                                   sessionHeap, sessions, now>>
              /\ (u \in DOMAIN users /\ users[u].active_session = None) =>
                    /\ users'[u].saldo = users[u].saldo
                    /\ users'[u].sessions_history = users[u].sessions_history
                    /\ chargerHeap' = chargerHeap
                    /\ u \notin DOMAIN sessions']_vars

\* end_charging of a user who has just closed a session leads here from this
\* very state, and so does (but for the return value) that of an unknown id
C14_Witness ==
    /\ Len(users) = 1
    /\ users[1].active_session = None
    /\ users[1].sessions_history # << >>
    /\ 1 \notin DOMAIN sessions
    /\ last.ret = 1

\* C15: a recharge of a > 0 returns success and makes the balance the
\* balance before plus a; a recharge of a <= 0 returns failure and leaves the
\* balance as it was.
C15_RechargeAddsOrRefuses ==
    [][\A u \in DOMAIN users, a \in RechargeAmounts :
          recargar_saldo_usuario(u, a) =>
              IF a > 0
              THEN /\ last'.ret = 1
                   /\ users'[u].saldo = users[u].saldo + a
              ELSE /\ last'.ret = 0
                   /\ users'[u].saldo = users[u].saldo]_vars

\* a user who has never charged holds a balance that only an accepted
\* recharge can have produced
C15_Witness ==
    /\ sessionHeap = << >>
    /\ last.ret = 1
    /\ \E u \in DOMAIN users, a \in RechargeAmounts :
          /\ a > 0
          /\ users[u].saldo = a
          /\ users[u].saldo - a \in InitialBalances

\* C16: while a session stays open its duration in minutes is non-negative
\* and does not decrease as the clock advances, whatever the time elapsed.
C16_OpenDurationNeverDecreases ==
    [][\A s \in DOMAIN sessionHeap :
          (sessionHeap[s].end_time = NoTime /\ sessionHeap'[s].end_time = NoTime) =>
              /\ get_duration(sessionHeap[s], now) >= 0
              /\ get_duration(sessionHeap'[s], now') >= get_duration(sessionHeap[s], now)]_vars

\* how many times the session ref s occurs in a history
Occurrences(s, history) == Cardinality({i \in DOMAIN history : history[i] = s})

\* C17: once its user has no active session again, every session created by
\* start_charging is in that user's history exactly once with its end_time
\* set; and no operation removes an entry from a history.
C17_SessionsEndInHistory ==
    [][/\ \A s \in DOMAIN sessionHeap' :
             LET u == sessionHeap'[s].user IN
             users'[u].active_session = None =>
                 /\ Occurrences(s, users'[u].sessions_history) = 1
                 /\ sessionHeap'[s].end_time # NoTime
       /\ \A u \in DOMAIN users :
             \A i \in DOMAIN users[u].sessions_history :
                 /\ i \in DOMAIN users'[u].sessions_history
                 /\ users'[u].sessions_history[i] = users[u].sessions_history[i]]_vars

\* the place of a status on the line programado -> en_proceso -> completado
Stage(estado) ==
    CASE estado = "programado" -> 1
      [] estado = "en_proceso" -> 2
      [] estado = "completado" -> 3

\* a schedule call under the id puts a new maintenance there
Rescheduled(id) ==
    \E st \in StationIds : \/ programar_mantenimiento_preventivo(id, st)
                           \/ programar_mantenimiento_correctivo(id, st)

\* C18: the status of a maintenance only moves forward along scheduled ->
\* in_progress -> completed, whatever schedule, start and complete calls are
\* made: once completed it is never in_progress or scheduled again, once
\* in_progress never scheduled again.
C18_StatusOnlyMovesForward ==
    [][\A id \in DOMAIN maintenances :
          ~Rescheduled(id) =>
              /\ id \in DOMAIN maintenances'
              /\ Stage(maintenances'[id].estado) >= Stage(maintenances[id].estado)]_vars

\* C19: a scheduled maintenance is stored under its id as scheduled, without
\* notes and with the given station id; start on a scheduled maintenance
\* makes it in_progress; complete(notes) makes it completed with exactly
\* those notes.
C19_ScheduleStartComplete ==
    [][/\ \A id \in MaintIds, st \in StationIds :
             (\/ programar_mantenimiento_preventivo(id, st)
              \/ programar_mantenimiento_correctivo(id, st)) =>
                 /\ id \in DOMAIN maintenances'
                 /\ maintenances'[id].id_mantenimiento = id
                 /\ maintenances'[id].estado = "programado"
                 /\ maintenances'[id].notas = ""
                 /\ maintenances'[id].estacion_id = st
       /\ \A id \in DOMAIN maintenances :
             (iniciar_mantenimiento(id) /\ maintenances[id].estado = "programado") =>
                 maintenances'[id].estado = "en_proceso"
       /\ \A id \in DOMAIN maintenances, notas \in NotesInputs :
             completar_mantenimiento(id, notas) =>
                 /\ maintenances'[id].estado = "completado"
                 /\ maintenances'[id].notas = notas]_vars

\* the preventive maintenance 5001 of station 2, completed with notes, next
\* to a maintenance that has been started and one can only have scheduled
C19_Witness ==
    /\ DOMAIN maintenances = MaintIds
    /\ maintenances[5001].tipo = "preventivo"
    /\ maintenances[5001].estacion_id = 2
    /\ maintenances[5001].estado = "completado"
    /\ maintenances[5001].notas = "revisado"
    /\ maintenances[5002].estado = "en_proceso"
    /\ last.ret = 5001

\* C20: the record scheduled under an id stays under that id with its kind
\* and station id, and the scheduling of a maintenance leaves the status and
\* notes of every record already held as they were.
C20_RecordStaysRetrievable ==
    [][\A id \in DOMAIN maintenances :
          /\ id \in DOMAIN maintenances'
          /\ maintenances'[id].tipo = maintenances[id].tipo
          /\ maintenances'[id].estacion_id = maintenances[id].estacion_id
          /\ (\E id2 \in MaintIds, st \in StationIds :
                 \/ programar_mantenimiento_preventivo(id2, st)
                 \/ programar_mantenimiento_correctivo(id2, st)) =>
                 maintenances'[id] = maintenances[id]]_vars

\* C21: no two stored users share an email, and register_user with an email
\* that is already registered raises its error and leaves the users as they
\* were.
C21_EmailsUnique ==
    [][/\ \A i, j \in DOMAIN users' :
             i # j => users'[i].email # users'[j].email
       /\ \A e \in Emails, p \in Passwords, t \in UserTypes, b \in InitialBalances :
             (/\ register_user(e, p, t, b)
              /\ \E i \in DOMAIN users : users[i].email = e) =>
                 /\ last'.ret = None
                 /\ users' = users]_vars

\* every email is taken and a call has just been refused: the state a
\* register_user with a registered email comes from and leads to
C21_Witness ==
    /\ {users[i].email : i \in DOMAIN users} = Emails
    /\ last.ret = None

\* C22: from its registration on, authenticate_user returns a user exactly
\* for that user's email with the password supplied at registration, and
\* nothing for any other password or for an email that is not registered.
C22_AuthenticatesExactly ==
    [][/\ \A e \in Emails, p \in Passwords, t \in UserTypes, b \in InitialBalances :
             (register_user(e, p, t, b) /\ last'.ret # None) =>
                 \A q \in Passwords :
                     (authenticate(e, q))' = IF q = p THEN last'.ret ELSE None
       /\ \A e \in Emails, q \in Passwords :
             /\ (\A i \in DOMAIN users : users[i].email # e) =>
                    authenticate(e, q) = None
             /\ (\E i \in DOMAIN users : users[i].email = e) =>
                    (authenticate(e, q))' = authenticate(e, q)]_vars

\* the Charger refs a station holds
HeldBy(station) == {station.chargers[i] : i \in DOMAIN station.chargers}

\* C23: no two charger objects held by stations share an id, and every
\* charger held by a station is the one the registry's charger index returns
\* for its id.
C23_ChargerIdsUnique ==
    LET held == UNION {HeldBy(stations[st]) : st \in DOMAIN stations} IN
    /\ \A c1, c2 \in held : c1 # c2 => chargerHeap[c1].id # chargerHeap[c2].id
    /\ \A c \in held : get_charger(chargerHeap[c].id) = c

\* C24: after a delete_station that succeeds, the chargers that belonged to
\* the station are returned neither by the charger lookup nor by the charger
\* listing.
C24_DeleteStationDropsChargers ==
    [][\A st \in StationIds :
          (delete_station(st) /\ last'.ret = 1) =>
              \A c \in HeldBy(stations[st]) :
                  /\ c \notin list_chargers'
                  /\ (get_charger(chargerHeap[c].id))' # c]_vars

\* C25: the availability report of a station gives the number of its
\* chargers, the number whose status is available, the number whose status is
\* occupied and available / total * 100 (0 for a station without chargers);
\* for an unknown station it gives an error and no counts.
C25_AvailabilityReport ==
    last.op = "get_station_disponibilidad" =>
        IF last.a \in DOMAIN stations
        THEN LET refs  == stations[last.a].chargers
                 avail == Cardinality({j \in DOMAIN refs :
                                          IsAvailable(chargerHeap[refs[j]].status)})
                 occup == Cardinality({j \in DOMAIN refs :
                                          IsOccupied(chargerHeap[refs[j]].status)})
                 pct   == last.out.porcentaje_disponibilidad
             IN /\ DOMAIN last.out = {"station_id", "total_chargers", "disponibles",
                                      "ocupados", "porcentaje_disponibilidad"}
                /\ last.out.total_chargers = Len(refs)
                /\ last.out.disponibles = avail
                /\ last.out.ocupados = occup
                /\ IF Len(refs) = 0 THEN pct.num = 0
                   ELSE pct.num * Len(refs) = avail * 100 * pct.den
        ELSE DOMAIN last.out = {"error"}

\* the registered user a bearer token identifies: the one holding the email
\* of a signed token that has not expired (None when there is none)
Bearer(token) ==
    IF token.signed /\ token.exp >= now /\ \E u \in DOMAIN users : users[u].email = token.sub
    THEN CHOOSE u \in DOMAIN users : users[u].email = token.sub
    ELSE None

\* the request was answered with an authentication or authorization error
\* and nothing in the registry changed
Rejected ==
    /\ last'.op = "http"
    /\ last'.ret \in {401, 403}
    /\ UNCHANGED <<maintenances, chargerHeap, stations, chargers, users,
                   sessionHeap, sessions>>

\* C26: a request to an admin-only endpoint is rejected and changes nothing
\* in the registry unless the user its bearer token identifies has the role
\* admin.
C26_AdminOnly ==
    [][\A token \in Tokens :
          (/\ AdminRequest(token)
           /\ \/ Bearer(token) = None
              \/ users[Bearer(token)].user_type # "admin") => Rejected]_vars

\* an admin has set up a station and a maintenance, and the last request
\* has been refused for want of the admin role
C26_Witness ==
    /\ stations # EmptyMap
    /\ maintenances # EmptyMap
    /\ last.op = "http"
    /\ last.ret = 403

\* C27: a request to recharge a balance or to start or close a session that
\* names a user other than the one its bearer token identifies is rejected
\* and changes nothing; and a user's balance, active session and history
\* change only by such a request authenticated as that user.
C27_OwnResourcesOnly ==
    [][/\ \A token \in Tokens, u \in UserIds :
             (UserRequest(token, u) /\ Bearer(token) # u) => Rejected
       /\ \A u \in DOMAIN users :
             users'[u] # users[u] =>
                 \E token \in Tokens : Bearer(token) = u /\ UserRequest(token, u)]_vars

\* a user has recharged and opened a session, and the last request has been
\* refused for naming somebody else
C27_Witness ==
    /\ \E u \in DOMAIN users :
          users[u].saldo > 0 /\ users[u].active_session # None
    /\ last.op = "http"
    /\ last.ret = 403

\* C28: a charger that reserve_charger has returned and stop_charge has then
\* released is among the station's available chargers again, and the station
\* has a charger to reserve.
C28_ReleasedChargerIsAvailable ==
    [][\A c \in DOMAIN chargerHeap :
          (/\ last.op = "reserve_charger"
           /\ last.ret = c
           /\ ChargerStopCharge(c)) =>
              LET available == get_available_chargers(chargerHeap', stations'[last.a]) IN
              /\ \E i \in DOMAIN available : available[i] = c
              /\ reserve_charger(chargerHeap', stations'[last.a]).ret # None]_vars

\* C29: the duration of a session is the whole minutes in the seconds from
\* its start_time to its end_time, or to now while it is open, however long
\* that is.
C29_DurationIsElapsedMinutes ==
    \A s \in DOMAIN sessionHeap :
        LET upto == IF sessionHeap[s].end_time # NoTime
                    THEN sessionHeap[s].end_time ELSE now
        IN get_duration(sessionHeap[s], now) = (upto - sessionHeap[s].start_time) \div 60

\* C30: Session.end on a session whose end_time is set leaves the end_time
\* as it was.
C30_SecondEndKeepsEndTime ==
    [][\A s \in DOMAIN sessionHeap :
          (SessionEnd(s) /\ sessionHeap[s].end_time # NoTime) =>
              sessionHeap'[s].end_time = sessionHeap[s].end_time]_vars

\* C31: start sets the status of a maintenance to in_progress, and
\* complete(notes) sets it to completed and stores the notes, whatever the
\* status before the call, completed included.
C31_StartCompleteUnconditional ==
    [][/\ \A id \in DOMAIN maintenances :
             iniciar_mantenimiento(id) =>
                 /\ maintenances'[id].estado = "en_proceso"
                 /\ maintenances'[id] = [maintenances[id] EXCEPT !.estado = "en_proceso"]
       /\ \A id \in DOMAIN maintenances, notas \in NotesInputs :
             completar_mantenimiento(id, notas) =>
                 maintenances'[id] =
                     [maintenances[id] EXCEPT !.estado = "completado", !.notas = notas]]_vars

\* a maintenance that was completed with notes has been started after that,
\* next to one completed without notes
C31_Witness ==
    /\ DOMAIN maintenances = MaintIds
    /\ maintenances[5001].estado = "en_proceso"
    /\ maintenances[5001].notas = "revisado"
    /\ maintenances[5002].estado = "completado"
    /\ maintenances[5002].notas = ""
    /\ last.ret = 5001

\* C32: in every state, for every station, the consumption report's session
\* count is the number of entries of the active-session index whose charger
\* the station holds, and its active-sessions figure, the number of the
\* station's occupied chargers, is that same number.
C32_ConsumptionReportCounts ==
    \A st \in DOMAIN stations :
        LET report  == get_station_consumo(st)
            indexed == Cardinality({u \in DOMAIN sessions :
                           sessionHeap[sessions[u]].charger \in HeldBy(stations[st])})
        IN /\ report.total_sesiones = indexed
           /\ report.sesiones_activas = indexed

\* the sessions that another user got on the charger picked by the call of
\* user u after that call had read the station's available chargers
TakenMeanwhile(u) ==
    {s \in DOMAIN sessionHeap :
        /\ s > inflight[u].seen
        /\ sessionHeap[s].charger = inflight[u].charger
        /\ sessionHeap[s].user # u}

\* C33: a start_charging call that has picked a charger returns a session on
\* that charger even when, between its reading of the available chargers and
\* its own marking of the charger, the call of another user got a session on
\* the same charger: both users were given an open session on it.
C33_RacingStartsShareCharger ==
    [][\A u \in DOMAIN inflight :
          (u \notin DOMAIN inflight' /\ TakenMeanwhile(u) # {}) =>
              /\ last'.ret # None
              /\ sessionHeap'[last'.ret].user = u
              /\ sessionHeap'[last'.ret].charger = inflight[u].charger
              /\ users'[u].active_session = last'.ret
              /\ \A s \in TakenMeanwhile(u) :
                    /\ s # last'.ret
                    /\ sessionHeap'[s].charger = sessionHeap'[last'.ret].charger
                    /\ sessionHeap'[s].end_time = NoTime]_vars

\* a call has returned a session on a charger on which another user was
\* given a session, still open, after that call had read the available
\* chargers; both sessions are indexed
C33_Witness ==
    /\ last.op = "start_charging"
    /\ last.ret # None
    /\ inflight = EmptyMap
    /\ \E s \in DOMAIN sessionHeap :
          /\ s > last.seen
          /\ s # last.ret
          /\ sessionHeap[s].charger = sessionHeap[last.ret].charger
          /\ sessionHeap[s].user # sessionHeap[last.ret].user
          /\ sessionHeap[s].end_time = NoTime
          /\ sessionHeap[last.ret].end_time = NoTime
          /\ users[sessionHeap[s].user].active_session = s
          /\ users[sessionHeap[last.ret].user].active_session = last.ret
          /\ sessions[sessionHeap[s].user] = s
          /\ sessions[sessionHeap[last.ret].user] = last.ret

\* C34: the active-session index holds an entry for a user exactly when that
\* user's active_session is set, and the entry is that very session.
C34_IndexMatchesActiveSession ==
    /\ DOMAIN sessions \subseteq DOMAIN users
    /\ \A u \in DOMAIN users :
          /\ (u \in DOMAIN sessions) <=> (users[u].active_session # None)
          /\ u \in DOMAIN sessions => sessions[u] = users[u].active_session

\* one user holds an indexed session while another, who has charged and
\* stopped, has neither an active session nor an index entry
C34_Witness ==
    \E u, v \in DOMAIN users :
        /\ u \in DOMAIN sessions
        /\ sessions[u] = users[u].active_session
        /\ users[v].sessions_history # << >>
        /\ users[v].active_session = None
        /\ v \notin DOMAIN sessions

\* C35: for every charger a station holds, the station's available_chargers()
\* lists the charger exactly when start_charge() on it would change its
\* status to occupied.
C35_OperationsAgreeOnAvailable ==
    \A st \in DOMAIN stations :
        \A c \in HeldBy(stations[st]) :
            LET listed == IndexOf(get_available_chargers(chargerHeap, stations[st]), c, 1) # 0
                before == chargerHeap[c].status
            IN listed <=> (~IsOccupied(before) /\ IsOccupied(start_charge(before)))

\* C36: every session in the active-session index is on a charger held by a
\* station that is in the registry, also after delete_station and after
\* create_station with an id already in use.
C36_IndexedSessionsHaveStation ==
    \A u \in DOMAIN sessions :
        \E st \in DOMAIN stations :
            sessionHeap[sessions[u]].charger \in HeldBy(stations[st])

\* the fields of user v that a call for another user must leave alone
Untouched(v) ==
    /\ users'[v].saldo = users[v].saldo
    /\ users'[v].active_session = users[v].active_session
    /\ users'[v].sessions_history = users[v].sessions_history

\* C37: start_charging, end_charging and a balance recharge made for one
\* user leave the balance, the active_session and the session history of
\* every other user as they were.
C37_OtherUsersUntouched ==
    [][\A u \in UserIds :
          (\/ \E st \in StationIds : start_charging(u, st)
           \/ end_charging(u)
           \/ \E a \in RechargeAmounts : recargar_saldo_usuario(u, a))
          => \A v \in DOMAIN users : v # u => Untouched(v)]_vars

\* one user has recharged, charged for two minutes and paid, while the
\* other, who has done nothing but start a session, holds it with the
\* balance and the empty history of the beginning
C37_Witness ==
    \E u, v \in DOMAIN users :
        /\ u # v
        /\ users[u].sessions_history # << >>
        /\ users[u].active_session = None
        /\ users[u].saldo = 700
        /\ users[v].saldo = 0
        /\ users[v].active_session # None
        /\ users[v].sessions_history = << >>
        /\ last.ret = 1

====
